---------------------------- MODULE Spec2Model ----------------------------
(***************************************************************************)
(* Control-flow model of the mixed-precision CG solver of                  *)
(* lib/inv_cg_quda.cpp: the single right-hand-side solver CG::operator(), *)
(* the block solver CG::solve_n<nsrc> and the dispatcher CG::solve.        *)
(*                                                                         *)
(* The operator and the field kernels are opaque: every number they        *)
(* return (a residual norm, a heavy-quark residual) is an input drawn from *)
(* a small set.  Norms are naturals and a squared norm is the square of a  *)
(* norm, so sqrt is exact.  tol and delta are rationals [num, den].        *)
(* A field's value is a formal sum (a bag) of symbolic terms:              *)
(*   <<"x0",c,0>>   the x the caller supplied to call number c             *)
(*   <<"b",c,0>>    the (non-zero) right-hand side of call c               *)
(*   <<"upd",i,j>>  the search direction of iteration i times the          *)
(*                  coefficient alpha computed in iteration j              *)
(*   <<"junk",0,0>> content left by an earlier use of the buffer           *)
(***************************************************************************)
EXTENDS Integers, Sequences, FiniteSets, Bags

\* ------------------------------------------------------------------ bounds
\* Largest norm a kernel returns.
MaxNorm == 2
\* Largest param.maxiter.
MaxIter == 2
\* Largest number of calls made on one solver instance.
MaxCalls == 2

Norms == 0..MaxNorm
\* Norms of a right-hand side: the zero field, or a unit source.
BNorms == {0, 1}
\* Values of the heavy-quark residual; tol_hq lies between them.
HQVals == {0, 2}
\* tol and delta as fractions.
Rat(n, d) == [num |-> n, den |-> d]
TolValues == {Rat(1, 2), Rat(1, 1)}
DeltaValues == {Rat(0, 1), Rat(1, 2), Rat(1, 1)}

VARIABLES
  pc,          \* where the solver instance is: "idle", "cg_loop", "cg_exit",
               \* "blk_loop", "blk_exit", "fatal"
  calls,       \* calls started on this instance
  callsMax,    \* calls the caller makes on this instance
  entry,       \* the member function of the latest call: "none",
               \* "operator()", "solve"
  ret,         \* how the last call ended: "none", "zero_source", "normal", or
               \* the fatal error it raised
  exitReason,  \* why the loop was left: "none", "converged", "maxiter", "break"
  param,       \* SolverParam
  xPrec,       \* x.Precision()
  isStaggered, \* mat.isStaggered()
  x, b,        \* the caller's fields
  b2,          \* squared norms of the columns of b (a sequence)
  stop,        \* stopping thresholds (a sequence of rationals)
  init,        \* CG::init
  alloc,       \* persistent buffers that are allocated
  temps,       \* per-call buffers that are separately allocated
  y,           \* *yp
  xSloppy,     \* the separate sloppy accumulator (when it does not alias x)
  xsIsX,       \* &x == &xSloppy
  k, r2, rNorm, r0Norm, maxrx, maxrr, delta, rUpdate,
  steps_since_reliable, converged,
  heavy_quark_res, heavy_quark_res_old, heavy_quark_restart,
  resIncrease, resIncreaseTotal, hqresIncrease, L2breakdown,
  updateX, updateR,   \* the decision of the latest iteration
  matCalls,    \* applications of the reference operator mat, by site
  matSloppyCalls, \* applications of matSloppy
  iter0,       \* param.iter at entry of the current call
  xin,         \* the x the caller supplied to the current call
  blockBuilt,  \* the build defines BLOCKSOLVER
  H,           \* block: the diagonal of H, the columns' squared residual norms
  allconverged, just_reliable_updated,
  aux_worker,  \* dslash::aux_worker: "NULL" or "blockcg_update"
  x_sloppy_saved, \* *x_sloppy_savedp
  buf,         \* what the buffers behind the members pp, qp, tmpp hold
               \* (std::swap of two members exchanges two entries)
  alphaIt,     \* the iteration that computed alpha; -1: as constructed (zero)
  tri,         \* where the small matrices of the block path may be non-zero
  cgbeta,      \* the sigma of one single-RHS iteration and how it was chosen
  probe,       \* the two reliable-update tests run side by side on one input
  blockcg_update,  \* the BlockCGUpdate object and its static cursor count
  freed,       \* buffers the destructor has deleted, with the number of deletes
  grew,        \* history: consecutive reliable updates (with updateX) whose
               \* recomputed residual norm exceeded the r0Norm they found
  grewTotal    \* history: all such reliable updates of the call

callVars == <<calls, callsMax, entry, ret, exitReason>>
\* What no call changes.
envVars == <<xPrec, isStaggered, blockBuilt, freed, blockcg_update, probe, tri,
            cgbeta>>
blockOnly == <<H, allconverged, just_reliable_updated, aux_worker,
               x_sloppy_saved, alphaIt>>
blockVars == <<blockOnly, buf>>
fieldVars == <<x, b, b2, stop, y, xSloppy, xsIsX>>
bufVars == <<init, alloc, temps>>
loopVars == <<k, r2, rNorm, r0Norm, maxrx, maxrr, delta, rUpdate,
              steps_since_reliable, converged, updateX, updateR>>
hqVars == <<heavy_quark_res, heavy_quark_res_old, heavy_quark_restart,
            hqresIncrease, L2breakdown>>
incVars == <<resIncrease, resIncreaseTotal, grew, grewTotal>>
obsVars == <<matCalls, matSloppyCalls, iter0, xin>>
vars == <<pc, param, callVars, envVars, fieldVars, bufVars, loopVars,
          hqVars, incVars, obsVars, blockVars>>

\* ----------------------------------------------------------------- fields
Zero == EmptyBag
\* What a buffer of the block solver holds: "none" (not allocated), "zero",
\* "R" (the residual), "Q", "P" (of iteration it), "Qraw" (Q before it is
\* orthonormalised) or "junk".
D(tag, it) == [tag |-> tag, it |-> it]
One(tag, i, j) == SetToBag({<<tag, i, j>>})
Junk == One("junk", 0, 0)
\* The content of a reused buffer as the next call finds it.
Stale(f) == IF f = Zero THEN Zero ELSE Junk

\* --------------------------------------------------------------- numbers
\* a < q * c and a >= q for rationals q
LtTimes(a, q, c) == a * q.den < q.num * c
RatGe(p, q) == p.num * q.den >= q.num * p.den
Max(a, c) == IF a > c THEN a ELSE c

\* stopping(tol, b2, residual_type) = tol^2 * b2
stopping(tol, bb2) == Rat(tol.num * tol.num * bb2, tol.den * tol.den)
use_heavy_quark_res == "HQ" \in param.residual_type
convergenceL2(rr2, hq, st, tolhq) ==
  ~("L2" \in param.residual_type /\ rr2 * st.den > st.num)
convergenceHQ(rr2, hq, st, tolhq) ==
  ~("HQ" \in param.residual_type /\ hq > tolhq)
convergence(rr2, hq, st, tolhq) ==
  convergenceHQ(rr2, hq, st, tolhq) /\ convergenceL2(rr2, hq, st, tolhq)

\* hooked counts the applications made while dslash::aux_worker was not NULL.
NoMat == [init |-> 0, reliable |-> 0, final |-> 0, hooked |-> 0]
Bump(m, site) == [m EXCEPT ![site] = @ + 1]
\* An application of mat at a site of solve_n while the hook holds h.
BumpHooked(m, site, h) ==
  [Bump(m, site) EXCEPT !.hooked = IF h = "NULL" THEN @ ELSE @ + 1]


\* ------------------------------------------------- single right-hand side
\* The locals of operator() as the entry code leaves them (lines 212-270).
CGLocals(rn, hq, st) ==
  /\ k' = 0
  /\ r2' = rn * rn
  /\ rNorm' = rn
  /\ r0Norm' = rn
  /\ maxrx' = rn
  /\ maxrr' = rn
  /\ delta' = param.delta
  /\ rUpdate' = 0
  /\ steps_since_reliable' = 1
  /\ heavy_quark_res' = hq
  /\ heavy_quark_res_old' = hq
  /\ heavy_quark_restart' = FALSE
  /\ resIncrease' = 0
  /\ resIncreaseTotal' = 0
  /\ hqresIncrease' = 0
  /\ L2breakdown' = FALSE
  /\ converged' = convergence(rn * rn, hq, st, param.tol_hq)
  /\ updateX' = FALSE
  /\ updateR' = FALSE
  /\ grew' = 0
  /\ grewTotal' = 0

\* The locals of a call that has not reached them, or has returned.
NoLocals ==
  /\ k' = 0 /\ r2' = 0 /\ rNorm' = 0 /\ r0Norm' = 0 /\ maxrx' = 0 /\ maxrr' = 0
  /\ delta' = Rat(0, 1) /\ rUpdate' = 0 /\ steps_since_reliable' = 1
  /\ heavy_quark_res' = 0 /\ heavy_quark_res_old' = 0
  /\ heavy_quark_restart' = FALSE
  /\ resIncrease' = 0 /\ resIncreaseTotal' = 0 /\ hqresIncrease' = 0
  /\ L2breakdown' = FALSE /\ converged' = FALSE
  /\ updateX' = FALSE /\ updateR' = FALSE
  /\ grew' = 0 /\ grewTotal' = 0

\* Buffers operator() allocates for one call (lines 138-146, 179-203).
CGTemps ==
  (IF ~isStaggered THEN {"tmp2"} ELSE {})
  \cup (IF xPrec # param.precision_sloppy /\ ~isStaggered THEN {"tmp3"} ELSE {})
  \cup (IF param.precision_sloppy = xPrec THEN {} ELSE {"r_sloppy"})
  \cup (IF param.precision_sloppy = xPrec \/ ~param.use_sloppy_partial_accumulator
        THEN {} ELSE {"x_sloppy"})
  \cup {"p"}

\* Lines 188-195 with the test of use_sloppy_partial_accumulator dropped.
CGSloppyIsXPrecisionOnly ==
  param.precision_sloppy = xPrec

\* Lines 188-195: x_sloppy = &x.
CGSloppyIsX ==
  param.precision_sloppy = xPrec \/ ~param.use_sloppy_partial_accumulator

\* Line 107 with the test of compute_null_vector inverted.
CGZeroSourceInverted(bn) ==
  bn * bn = 0 /\ param.compute_null_vector # "NO"

\* The zero-source test of line 107.
CGZeroSource(bn) ==
  bn * bn = 0 /\ param.compute_null_vector = "NO"

\* CG::operator()(x, b), lines 90-278: from entry to the first loop test.
CGCall ==
  /\ pc = "idle"
  /\ calls < callsMax
  /\ calls' = calls + 1
  /\ entry' = "operator()"
  /\ UNCHANGED <<callsMax, envVars, H, allconverged, just_reliable_updated,
                 aux_worker, alphaIt>>
  /\ \E cuda \in BOOLEAN, bn \in BNorms, rn \in Norms, hq0 \in HQVals :
       LET xnew == One("x0", calls + 1, 0)
           bin == IF bn = 0 THEN Zero ELSE One("b", calls + 1, 0)
           hq == IF use_heavy_quark_res THEN hq0 ELSE 0
           \* line 175: b2 = r2 when b is the zero field
           bb2 == IF bn * bn = 0 THEN rn * rn ELSE bn * bn
           st == stopping(param.tol, bb2)
       IN
       /\ b' = bin
       /\ xin' = xnew
       /\ iter0' = param.iter
       /\ matSloppyCalls' = 0
       /\ IF ~cuda
          THEN \* line 92
               /\ pc' = "fatal"
               /\ ret' = "not_supported"
               /\ x' = xnew
               /\ NoLocals
               /\ matCalls' = NoMat
               /\ b2' = << >> /\ stop' = << >>
               /\ UNCHANGED <<param, exitReason, bufVars, y, xSloppy, xsIsX,
                              buf, x_sloppy_saved>>
          ELSE IF CGZeroSource(bn)
          THEN \* lines 107-114
               /\ pc' = "idle"
               /\ ret' = "zero_source"
               /\ exitReason' = "none"
               /\ x' = bin
               /\ param' = [param EXCEPT !.true_res = "zero", !.true_res_hq = "zero"]
               /\ NoLocals
               /\ matCalls' = NoMat
               /\ b2' = <<bn * bn>> /\ stop' = << >>
               /\ UNCHANGED <<bufVars, y, xSloppy, xsIsX, buf, x_sloppy_saved>>
          ELSE \* lines 116-278
               /\ init' = TRUE
               /\ alloc' = IF init THEN alloc ELSE alloc \cup {"r", "y", "Ap", "tmp"}
               \* tmp is the scratch field of mat and matSloppy
               /\ buf' = [buf EXCEPT !.tmp = D("junk", 0)]
               /\ x_sloppy_saved' = Stale(x_sloppy_saved)
               /\ temps' = CGTemps
               /\ matCalls' = Bump(NoMat, "init")
               /\ b2' = <<bb2>>
               /\ stop' = <<st>>
               /\ xsIsX' = CGSloppyIsX
               /\ x' = xnew
               \* lines 205-210
               /\ y' = IF CGSloppyIsX THEN Zero ELSE xnew
               /\ xSloppy' = Zero
               /\ CGLocals(rn, hq, st)
               /\ UNCHANGED <<param, ret>>
               /\ LET conv == convergence(rn * rn, hq, st, param.tol_hq) IN
                  IF ~conv /\ 0 < param.maxiter
                  THEN pc' = "cg_loop" /\ exitReason' = "none"
                  ELSE /\ pc' = "cg_exit"
                       /\ exitReason' = IF conv THEN "converged" ELSE "maxiter"

\* *x_sloppy, whichever field it is.
XS == IF xsIsX THEN x ELSE xSloppy

\* Lines 339-342: the classical reliable-update test, maxrx and maxrr updated.
\* Line 341 testing rNorm against delta * maxrx instead of delta * r0Norm.
CGUpdateXTestAgainstMax(rn, dl, r0N, mrx) ==
  LtTimes(rn, dl, Max(mrx, rn)) /\ r0N <= Max(mrx, rn)

\* Lines 339-342 on given values of delta, r0Norm, maxrx and maxrr.
CGUpdateXTest(rn, dl, r0N, mrx) == LtTimes(rn, dl, r0N) /\ r0N <= Max(mrx, rn)

\* Line 342 without its test against maxrr.
CGUpdateRTestOnlyX(rn, dl, r0N, mrx, mrr) == CGUpdateXTest(rn, dl, r0N, mrx)

CGUpdateRTest(rn, dl, r0N, mrx, mrr) ==
  (LtTimes(rn, dl, Max(mrr, rn)) /\ r0N <= Max(mrr, rn))
  \/ CGUpdateXTest(rn, dl, r0N, mrx)

CGUpdateX(rn) == CGUpdateXTest(rn, delta, r0Norm, maxrx)
CGUpdateR(rn) == CGUpdateRTest(rn, delta, r0Norm, maxrx, maxrr)

\* Lines 346-351 with param.delta > param.tol for param.delta >= param.tol.
CGForcedStrict(rn) ==
  \/ /\ convergence(rn * rn, heavy_quark_res, stop[1], param.tol_hq)
     /\ ~RatGe(param.tol, param.delta)
  \/ /\ use_heavy_quark_res /\ L2breakdown
     /\ convergenceHQ(rn * rn, heavy_quark_res, stop[1], param.tol_hq)
     /\ ~RatGe(param.tol, param.delta)

\* Lines 346-351: the forced reliable update.
CGForced(rn) ==
  \/ /\ convergence(rn * rn, heavy_quark_res, stop[1], param.tol_hq)
     /\ RatGe(param.delta, param.tol)
  \/ /\ use_heavy_quark_res /\ L2breakdown
     /\ convergenceHQ(rn * rn, heavy_quark_res, stop[1], param.tol_hq)
     /\ RatGe(param.delta, param.tol)

\* Line 247.
maxResIncrease == IF use_heavy_quark_res THEN 0 ELSE param.max_res_increase
\* Line 248.
maxResIncreaseTotal == param.max_res_increase_total
\* Line 251.
hqmaxresIncrease == maxResIncrease + 1

\* Line 414, evaluated after lines 403-406 have set r0Norm to the new norm:
\* tn is sqrt(r2) of the recomputed residual and r0N the value r0Norm holds.
CGResIncreased(tn, r0N, updX) == tn > r0N /\ updX

\* Lines 472-481 without the steps_since_reliable == 0 requirement.
CGConvergedAnyStep(rr2, hq, steps, l2b) ==
  IF use_heavy_quark_res
  THEN LET L2done == l2b \/ convergenceL2(rr2, hq, stop[1], param.tol_hq)
           HQdone == param.delta.num > 0
                     /\ convergenceHQ(rr2, hq, stop[1], param.tol_hq)
       IN L2done /\ HQdone
  ELSE convergence(rr2, hq, stop[1], param.tol_hq)

\* Lines 472-481: the loop's convergence flag after an iteration.
CGConverged(rr2, hq, steps, l2b) ==
  IF use_heavy_quark_res
  THEN LET L2done == l2b \/ convergenceL2(rr2, hq, stop[1], param.tol_hq)
           HQdone == (steps = 0 /\ param.delta.num > 0)
                     /\ convergenceHQ(rr2, hq, stop[1], param.tol_hq)
       IN L2done /\ HQdone
  ELSE convergence(rr2, hq, stop[1], param.tol_hq)

\* Line 278 with k <= param.maxiter for k < param.maxiter.
CGLoopTestOffByOne(kk, conv) ==
  IF ~conv /\ kk <= param.maxiter
  THEN pc' = "cg_loop" /\ exitReason' = "none"
  ELSE pc' = "cg_exit" /\ exitReason' = IF conv THEN "converged" ELSE "maxiter"

\* The test of the while loop (line 278) after an iteration has set k and converged.
CGLoopTest(kk, conv) ==
  IF ~conv /\ kk < param.maxiter
  THEN pc' = "cg_loop" /\ exitReason' = "none"
  ELSE pc' = "cg_exit" /\ exitReason' = IF conv THEN "converged" ELSE "maxiter"

\* One pass of the loop body, lines 279-481.
CGIterate ==
  /\ pc = "cg_loop"
  /\ UNCHANGED <<param, calls, callsMax, entry, ret, envVars, b, b2, stop,
                 xsIsX, bufVars, iter0, xin, blockVars>>
  /\ matSloppyCalls' = matSloppyCalls + 1
  /\ \E rn \in Norms, tn \in Norms, hq0 \in HQVals :
       LET updX == CGUpdateX(rn) \/ CGForced(rn)
           updR == CGUpdateR(rn)
           term == One("upd", k, k)
       IN
       /\ updateX' = updX
       /\ updateR' = updR
       /\ IF ~(updR \/ updX)
          THEN \* lines 354-378
               LET hq == IF use_heavy_quark_res /\ k % param.heavy_quark_check = 0
                         THEN hq0 ELSE heavy_quark_res
               IN
               /\ r2' = rn * rn
               /\ rNorm' = rn
               /\ maxrx' = Max(maxrx, rn)
               /\ maxrr' = Max(maxrr, rn)
               /\ x' = IF xsIsX THEN x (+) term ELSE x
               /\ xSloppy' = IF xsIsX THEN xSloppy ELSE xSloppy (+) term
               /\ heavy_quark_res' = hq
               /\ steps_since_reliable' = steps_since_reliable + 1
               /\ k' = k + 1
               /\ converged' = CGConverged(rn * rn, hq, steps_since_reliable + 1,
                                           L2breakdown)
               /\ CGLoopTest(k + 1, converged')
               /\ UNCHANGED <<y, r0Norm, delta, rUpdate, heavy_quark_res_old,
                              heavy_quark_restart, hqresIncrease, L2breakdown,
                              incVars, matCalls>>
          ELSE \* lines 382-464
               LET hq == IF use_heavy_quark_res THEN hq0 ELSE heavy_quark_res
                   inc == CGResIncreased(tn, tn, updX)
                   ri == IF inc THEN resIncrease + 1 ELSE 0
                   rit == IF inc THEN resIncreaseTotal + 1 ELSE resIncreaseTotal
                   over == inc /\ (ri > maxResIncrease \/ rit > maxResIncreaseTotal)
                   l2b == L2breakdown \/ (over /\ use_heavy_quark_res)
                   brk1 == over /\ ~use_heavy_quark_res
                   hqup == ~brk1 /\ use_heavy_quark_res /\ l2b
                   hqinc == hqup /\ hq > heavy_quark_res_old
                   hqi == IF hqinc THEN hqresIncrease + 1 ELSE hqresIncrease
                   brk2 == hqinc /\ hqi > hqmaxresIncrease
                   g == tn > r0Norm /\ updX
               IN
               \* lines 382-390: x_sloppy is flushed into y, then zeroed; mat
               \* takes x as its scratch field
               /\ y' = y (+) XS (+) term
               /\ x' = IF xsIsX THEN Zero ELSE Junk
               /\ xSloppy' = Zero
               /\ matCalls' = Bump(matCalls, "reliable")
               /\ r2' = tn * tn
               /\ rNorm' = tn
               /\ maxrr' = tn
               /\ maxrx' = tn
               /\ r0Norm' = tn
               /\ heavy_quark_res' = hq
               /\ resIncrease' = ri
               /\ resIncreaseTotal' = rit
               /\ grew' = IF g THEN grew + 1 ELSE 0
               /\ grewTotal' = IF g THEN grewTotal + 1 ELSE grewTotal
               /\ L2breakdown' = l2b
               /\ delta' = IF hqup THEN Rat(0, 1) ELSE delta
               /\ hqresIncrease' = hqi
               /\ IF brk1 \/ brk2
                  THEN \* lines 424, 441: break
                       /\ pc' = "cg_exit"
                       /\ exitReason' = "break"
                       /\ heavy_quark_restart' = hqup
                       /\ UNCHANGED <<k, steps_since_reliable, rUpdate, converged,
                                      heavy_quark_res_old>>
                  ELSE /\ heavy_quark_restart' = FALSE
                       /\ steps_since_reliable' = 0
                       /\ rUpdate' = rUpdate + 1
                       /\ heavy_quark_res_old' = hq
                       /\ k' = k + 1
                       /\ converged' = CGConverged(tn * tn, hq, 0, l2b)
                       /\ CGLoopTest(k + 1, converged')

\* Lines 524-530: what the epilogue deletes.  tmp3 and tmp2 are compared
\* with tmp by address; r_sloppy and x_sloppy are deleted when their precision
\* differs from that of r and of x, a separate copy having the sloppy
\* precision and an alias the precision of what it aliases; pp always.
CGFrees ==
  (IF "tmp3" \in temps THEN {"tmp3"} ELSE {})
  \cup (IF "tmp2" \in temps THEN {"tmp2"} ELSE {})
  \cup (IF (IF "r_sloppy" \in temps THEN param.precision_sloppy ELSE xPrec) # xPrec
        THEN {"r_sloppy"} ELSE {})
  \cup (IF (IF xsIsX THEN xPrec ELSE param.precision_sloppy) # xPrec
        THEN {"x_sloppy"} ELSE {})
  \cup {"p"}

\* The epilogue of operator(), lines 484-534.
CGReturn ==
  /\ pc = "cg_exit"
  /\ pc' = "idle"
  /\ ret' = "normal"
  \* lines 484-485
  /\ x' = XS (+) y
  /\ param' = [param EXCEPT
       !.iter = @ + k,
       !.true_res = IF param.compute_true_res THEN "computed" ELSE @,
       !.true_res_hq = IF param.compute_true_res THEN "computed" ELSE @]
  /\ matCalls' = IF param.compute_true_res THEN Bump(matCalls, "final") ELSE matCalls
  \* lines 524-530
  /\ temps' = temps \ CGFrees
  /\ xSloppy' = Zero
  /\ NoLocals
  /\ UNCHANGED <<calls, callsMax, entry, exitReason, envVars, b, b2, stop, y,
                 xsIsX, init, alloc, matSloppyCalls, iter0, xin, blockVars>>

\* ------------------------------------------------------------ block solver
\* Largest number of columns whose norms vary independently; the columns
\* after it repeat the last of them.
MaxCols == 2
\* QUDA_MAX_BLOCK_SRC, the compile-time cap tested at line 1553.
QUDA_MAX_BLOCK_SRC == 64

\* The vectors of n column norms a kernel returns.
ColVecs(n, vals) ==
  LET m == IF n < MaxCols THEN n ELSE MaxCols IN
  { [j \in 1..n |-> IF j <= m THEN f[j] ELSE f[m]] : f \in [1..m -> vals] }

SeqMax(f) == CHOOSE v \in {f[j] : j \in DOMAIN f} : \A j \in DOMAIN f : f[j] <= v
SeqMin(f) == CHOOSE v \in {f[j] : j \in DOMAIN f} : \A j \in DOMAIN f : v <= f[j]
Squares(f) == [j \in DOMAIN f |-> f[j] * f[j]]
\* sqrt of a square of the model
Sqrt(n) == CHOOSE s \in 0..n : s * s = n

\* The switch of lines 1556-1579 with a case for every size up to the cap.
SolveSupportedRange(n) == n \in 1..QUDA_MAX_BLOCK_SRC

\* The switch of lines 1556-1579 without case 1.
SolveSupportedFrom2(n) == n \in (2..16) \cup {24, 32, 48, 64}

\* The switch of CG::solve, lines 1556-1579: the block sizes it instantiates.
SolveSupported(n) == n \in (1..16) \cup {24, 32, 48, 64}

\* Lines 1549-1579: the fatal error CG::solve raises for num_src = n in a
\* build with (built) or without BLOCKSOLVER; "none" when it reaches
\* solve_n<n>.
SolveError(n, built) ==
  IF ~built THEN "not_built"
  ELSE IF n > QUDA_MAX_BLOCK_SRC THEN "exceeds_max"
  ELSE IF ~SolveSupported(n) THEN "dimension"
  ELSE "none"

\* Lines 705-716 with the error raised only when every column is zero.
BlockZeroSourceAll(bn) == \A i \in DOMAIN bn : bn[i] * bn[i] = 0

\* Lines 705-716: some column of b has zero norm.
BlockZeroSource(bn) == \E i \in DOMAIN bn : bn[i] * bn[i] = 0

\* Line 776: x_sloppyp = &x.
BlockSloppyIsX ==
  param.precision_sloppy = xPrec \/ ~param.use_sloppy_partial_accumulator

\* Lines 876-898: the per-call temporaries of solve_n.
BlockTemps ==
  (IF ~isStaggered THEN {"tmp2"} ELSE {})
  \cup (IF param.precision # param.precision_sloppy /\ ~isStaggered
        THEN {"tmp3"} ELSE {})

\* Lines 946-956 with the flag set as soon as one column converges.
AllConvergedAny(h, st) ==
  \E i \in DOMAIN h : convergence(h[i], 0, st[i], param.tol_hq)

\* Lines 946-956 and 1450-1454: every column satisfies the stopping test.
AllConverged(h, st) ==
  \A i \in DOMAIN h : convergence(h[i], 0, st[i], param.tol_hq)

\* Lines 940-956, 1309-1323: the aggregate norm (the build takes the largest).
\* Line 38: BLOCKSOLVER_RELIABLE_POLICY_MIN is not defined in this build.
BLOCKSOLVER_RELIABLE_POLICY == "max"

\* The aggregate always taken from the first column.
ReliableAggregateFirst(policy, h) == h[1]

\* Lines 1174-1190: the r2 handed to block_reliable, the smallest H(j,j)
\* with BLOCKSOLVER_RELIABLE_POLICY_MIN and the largest without.
ReliableAggregate(policy, h) == IF policy = "min" THEN SeqMin(h) ELSE SeqMax(h)

BlockAggregate(h) == SeqMax([i \in DOMAIN h |-> Sqrt(h[i])])

\* Line 686 with <= for <.
block_reliable_le(rr2, mrr, dl) ==
  Sqrt(rr2) * dl.den <= dl.num * Max(mrr, Sqrt(rr2))

\* CG::block_reliable, lines 679-691.
block_reliable(rr2, mrr, dl) == LtTimes(Sqrt(rr2), dl, Max(mrr, Sqrt(rr2)))

\* blas::caxpy(alpha, *src, x_sloppy): what the update adds to x_sloppy.
BlockUpdate(src, ait) ==
  IF ait < 0 THEN Zero
  ELSE IF src.tag = "P" THEN One("upd", src.it, ait)
  ELSE Junk

\* caxpy_U(Linv, R, dst): dst += R Linv gives Q only if dst was zero.
BlockQ(dst, it) == IF dst.tag = "zero" THEN D("Q", it) ELSE D("junk", 0)
\* Lines 1102-1150: Q += Ap beta with Ap = A P, then tmp = Q Linv from zero.
BlockQStep(qd, pd, it) ==
  IF qd.tag = "Q" /\ pd.tag = "P" THEN D("Q", it) ELSE D("junk", 0)
\* caxpyz_L(Sdagger, P, Q, tmp): tmp = Q + P Sdagger.
BlockP(pd, qd, it) ==
  IF pd.tag = "P" /\ qd.tag = "Q" THEN D("P", it) ELSE D("junk", 0)

\* *x_sloppyp of the block solver.
BXS == IF xsIsX THEN x ELSE x_sloppy_saved

\* The test of the while loop, line 1024.
BlockLoopTest(kk, conv) ==
  IF ~conv /\ kk < param.maxiter
  THEN pc' = "blk_loop" /\ exitReason' = "none"
  ELSE pc' = "blk_exit" /\ exitReason' = IF conv THEN "converged" ELSE "maxiter"

\* A fatal error raised before solve_n has changed anything.
SolveFatal(why) ==
  /\ pc' = "fatal"
  /\ ret' = why
  /\ NoLocals
  /\ matCalls' = NoMat
  /\ stop' = << >>
  /\ UNCHANGED <<param, exitReason, bufVars, y, xSloppy, xsIsX, blockVars>>

\* solve_n<nsrc> from line 720 to the first loop test, for column norms bn
\* of b and rn of the initial residual.
SolveEnter(xnew, bn, rn) ==
  LET nsrc == param.num_src
      st == [i \in 1..nsrc |-> stopping(param.tol, bn[i] * bn[i])]
      h == Squares(rn)
      rN == BlockAggregate(h)
      \* lines 727-741: Create with QUDA_ZERO_FIELD_CREATE
      buf1 == IF ~init
              THEN [p |-> D("zero", 0), q |-> D("zero", 0), tmp |-> D("zero", 0)]
              ELSE buf
      \* lines 987-988, 1002
      bufT == [buf1 EXCEPT !.tmp = D("R", 0)]
      bufQ == [bufT EXCEPT !.q = BlockQ(buf1.q, 0)]
      bufP == [bufQ EXCEPT !.p = IF bufQ.q.tag = "Q" THEN D("P", 0) ELSE D("junk", 0)]
  IN
  /\ init' = TRUE
  /\ alloc' = IF ~init
              THEN alloc \cup {"r", "y", "Ap", "tmp", "x_sloppy_saved",
                               "p", "q", "tmp_matsloppy"}
              ELSE alloc
  /\ temps' = BlockTemps
  \* line 766, under whatever the hook holds at the call
  /\ matCalls' = BumpHooked(NoMat, "init", aux_worker)
  /\ b2' = Squares(bn)
  /\ stop' = st
  \* lines 770-785
  /\ y' = xnew
  /\ xsIsX' = BlockSloppyIsX
  /\ x' = IF BlockSloppyIsX THEN Zero ELSE xnew
  \* what an earlier call left in the saved accumulator stays there
  /\ x_sloppy_saved' = Stale(x_sloppy_saved)
  /\ UNCHANGED <<xSloppy, param>>
  /\ H' = h
  /\ aux_worker' = aux_worker
  /\ alphaIt' = -1
  /\ IF use_heavy_quark_res
     THEN \* line 914
          /\ pc' = "fatal"
          /\ ret' = "hq_block"
          /\ exitReason' = exitReason
          /\ NoLocals
          /\ buf' = buf1
          /\ allconverged' = FALSE
          /\ just_reliable_updated' = FALSE
     ELSE /\ ret' = ret
          /\ k' = 0
          /\ r2' = 0
          /\ rNorm' = rN
          /\ maxrx' = rN
          /\ maxrr' = rN
          /\ r0Norm' = 0
          /\ delta' = param.delta
          /\ rUpdate' = 0
          /\ steps_since_reliable' = 1
          /\ converged' = FALSE
          /\ updateX' = FALSE /\ updateR' = FALSE
          /\ heavy_quark_res' = 0 /\ heavy_quark_res_old' = 0
          /\ heavy_quark_restart' = FALSE
          /\ hqresIncrease' = 0 /\ L2breakdown' = FALSE
          /\ resIncrease' = 0 /\ resIncreaseTotal' = 0
          /\ grew' = 0 /\ grewTotal' = 0
          /\ allconverged' = AllConverged(h, st)
          /\ buf' = bufP
          /\ just_reliable_updated' = FALSE
          /\ BlockLoopTest(0, AllConverged(h, st))

\* CG::solve(x, b) and solve_n<num_src> up to the first loop test,
\* lines 1547-1583 and 695-1024.
SolveCall ==
  /\ pc = "idle"
  /\ calls < callsMax
  /\ calls' = calls + 1
  /\ entry' = "solve"
  /\ UNCHANGED <<callsMax, envVars>>
  /\ iter0' = param.iter
  /\ matSloppyCalls' = 0
  /\ LET xnew == One("x0", calls + 1, 0) IN
     /\ xin' = xnew
     /\ IF SolveError(param.num_src, blockBuilt) # "none"
        THEN \* lines 1550, 1554, 1578
             /\ x' = xnew
             /\ b' = One("b", calls + 1, 0)
             /\ b2' = << >>
             /\ SolveFatal(SolveError(param.num_src, blockBuilt))
        ELSE
        \E cuda \in BOOLEAN :
          IF ~cuda
          THEN \* line 697
               /\ x' = xnew
               /\ b' = One("b", calls + 1, 0)
               /\ b2' = << >>
               /\ SolveFatal("not_supported")
          ELSE
          \E bn \in ColVecs(param.num_src, BNorms) :
            /\ b' = IF \A i \in DOMAIN bn : bn[i] = 0 THEN Zero
                    ELSE One("b", calls + 1, 0)
            /\ IF BlockZeroSource(bn)
               THEN \* lines 708-710
                    /\ x' = xnew
                    /\ b2' = Squares(bn)
                    /\ SolveFatal("zero_source_block")
               ELSE IF init /\ ~({"x_sloppy_saved", "p", "q", "tmp_matsloppy"}
                                  \subseteq alloc)
               THEN \* lines 745-758 dereference members that are still nullptr
                    /\ pc' = "ub"
                    /\ x' = xnew
                    /\ NoLocals
                    /\ matCalls' = NoMat
                    /\ b2' = << >> /\ stop' = << >>
                    /\ UNCHANGED <<param, ret, exitReason, bufVars, y, xSloppy,
                                   xsIsX, blockVars>>
               ELSE \E rn \in ColVecs(param.num_src, Norms) :
                      SolveEnter(xnew, bn, rn)

\* One pass of the loop body of solve_n, lines 1025-1456.
\* Lines 1031-1039: whether dslash::aux_worker is set to &blockcg_update for
\* the matSloppy of iteration kk.
WorkerInstalledEveryIteration(kk, jru) == kk > 0

WorkerInstalledAfterReliable(kk, jru) == kk > 0 /\ jru

WorkerInstalled(kk, jru) == kk > 0 /\ ~jru

\* Line 1467: whether the epilogue still has to add the last update.
FlushAlways(jru) == TRUE

FlushPending(jru) == ~jru

\* Line 1230 left out: the hook keeps what lines 1031-1039 stored.
ReliableHookKept(h) == h
\* Line 1230: dslash::aux_worker = NULL, ahead of the mat of line 1234.
ReliableHook(h) == "NULL"
\* Line 1509: dslash::aux_worker = NULL, ahead of the mat of line 1513.
EpilogueHook(h) == "NULL"

BlockIterate ==
  /\ pc = "blk_loop"
  /\ UNCHANGED <<param, calls, callsMax, entry, ret, envVars, b, b2, stop, xsIsX,
                 bufVars, iter0, xin, xSloppy, r0Norm, delta, steps_since_reliable,
                 converged, updateX, hqVars, incVars>>
  /\ matSloppyCalls' = matSloppyCalls + 1
  /\ \E cn \in ColVecs(param.num_src, Norms) :
       LET worker == WorkerInstalled(k, just_reliable_updated)
           \* line 1042: the operator runs the installed worker, which reads
           \* *tmpp and alpha as they are now
           xs1 == IF worker THEN BXS (+) BlockUpdate(buf.tmp, alphaIt) ELSE BXS
           \* lines 1102-1161: Q += Ap beta, tmp = Q Linv from zero, swap(qp, tmpp)
           bufA == [buf EXCEPT !.q = BlockQStep(buf.q, buf.p, k + 1),
                               !.tmp = D("Qraw", k)]
           \* lines 1181-1191
           hc == Squares(cn)
           rr2 == ReliableAggregate(BLOCKSOLVER_RELIABLE_POLICY, hc)
           rel == block_reliable(rr2, maxrr, delta)
       IN
       /\ updateR' = rel
       /\ alphaIt' = k
       /\ k' = k + 1
       /\ r2' = rr2
       /\ IF ~rel
          THEN \* lines 1355-1371: tmp = Q + P Sdagger, swap(pp, tmpp)
               LET bufB == [bufA EXCEPT !.p = BlockP(bufA.p, bufA.q, k + 1),
                                        !.tmp = bufA.p]
               IN
               /\ x' = IF xsIsX THEN xs1 ELSE x
               /\ x_sloppy_saved' = IF xsIsX THEN x_sloppy_saved ELSE xs1
               /\ rNorm' = Sqrt(rr2)
               /\ maxrx' = Max(maxrx, Sqrt(rr2))
               /\ maxrr' = Max(maxrr, Sqrt(rr2))
               /\ aux_worker' = IF worker THEN "blockcg_update" ELSE "NULL"
               /\ just_reliable_updated' = FALSE
               /\ H' = hc
               /\ buf' = bufB
               /\ allconverged' = AllConverged(hc, stop)
               /\ BlockLoopTest(k + 1, AllConverged(hc, stop))
               /\ UNCHANGED <<y, rUpdate, matCalls>>
          ELSE \E tn \in ColVecs(param.num_src, Norms) :
               LET ht == Squares(tn)
                   rN == BlockAggregate(ht)
                   \* lines 1287-1290: zero(q), tmp = r, q += tmp Linv
                   bufR == [bufA EXCEPT !.tmp = D("R", k + 1),
                                        !.q = BlockQ(D("zero", 0), k + 1)]
                   \* lines 1355-1371
                   bufB == [bufR EXCEPT !.p = BlockP(bufR.p, bufR.q, k + 1),
                                        !.tmp = bufR.p]
               IN
               \* lines 1215-1244
               /\ y' = y (+) xs1 (+) BlockUpdate(buf.p, k)
               /\ x' = IF xsIsX THEN Zero ELSE Junk
               /\ x_sloppy_saved' = IF xsIsX THEN x_sloppy_saved ELSE Zero
               /\ aux_worker' =
                    ReliableHook(IF worker THEN "blockcg_update" ELSE "NULL")
               /\ matCalls' = BumpHooked(matCalls, "reliable", aux_worker')
               /\ H' = ht
               /\ rNorm' = rN
               /\ maxrx' = rN
               /\ maxrr' = rN
               /\ rUpdate' = rUpdate + 1
               /\ just_reliable_updated' = TRUE
               /\ buf' = bufB
               /\ allconverged' = AllConverged(ht, stop)
               /\ BlockLoopTest(k + 1, AllConverged(ht, stop))

\* The epilogue of solve_n, lines 1459-1541.
BlockReturn ==
  /\ pc = "blk_exit"
  /\ pc' = "idle"
  /\ ret' = "normal"
  /\ LET \* lines 1467-1480
         xs1 == IF FlushPending(just_reliable_updated)
                THEN BXS (+) BlockUpdate(buf.tmp, alphaIt) ELSE BXS
     IN
     \* lines 1484-1487
     /\ x' = y (+) xs1
     /\ x_sloppy_saved' = IF xsIsX THEN x_sloppy_saved ELSE xs1
     \* line 1513: y is the scratch field of the final mat
     /\ y' = IF param.compute_true_res THEN Junk ELSE y (+) xs1
  /\ param' = [param EXCEPT
       !.iter = @ + k,
       !.true_res = IF param.compute_true_res THEN "computed" ELSE @,
       !.true_res_hq = IF param.compute_true_res THEN "computed" ELSE @]
  /\ aux_worker' = EpilogueHook(aux_worker)
  /\ matCalls' = IF param.compute_true_res
                 THEN BumpHooked(matCalls, "final", aux_worker') ELSE matCalls
  /\ temps' = {}
  /\ NoLocals
  /\ H' = << >> /\ allconverged' = FALSE /\ just_reliable_updated' = FALSE
  /\ alphaIt' = -1
  /\ UNCHANGED <<calls, callsMax, entry, exitReason, envVars, b, b2, stop,
                 xSloppy, xsIsX, init, alloc, matSloppyCalls, iter0, xin, buf>>

\* CG::~CG, lines 74-88: with init set, every member pointer that is not
\* null is deleted.
Destroy ==
  /\ pc = "idle"
  /\ pc' = "destroyed"
  /\ freed' = IF init THEN freed (+) SetToBag(alloc) ELSE freed
  /\ alloc' = IF init THEN {} ELSE alloc
  /\ init' = FALSE
  /\ UNCHANGED <<param, callVars, xPrec, isStaggered, blockBuilt, blockcg_update,
                 probe, tri, cgbeta, fieldVars, temps, loopVars, hqVars, incVars, obsVars,
                 blockVars>>

\* ------------------------------------------------------------ the instance
Precisions == {4, 8}
ResidualTypes == {{"L2"}, {"L2", "HQ"}}

ParamSpace(tols, deltas, iters, incs, inctots, types, nulls, sloppy, nsrcs) ==
  [tol : tols, tol_hq : {1}, delta : deltas, maxiter : iters,
   max_res_increase : incs, max_res_increase_total : inctots,
   residual_type : types, heavy_quark_check : {1},
   compute_true_res : {TRUE}, compute_null_vector : nulls,
   precision : {8}, precision_sloppy : sloppy,
   use_sloppy_partial_accumulator : {TRUE},
   num_src : nsrcs,
   iter : {0}, true_res : {"unset"}, true_res_hq : {"unset"}]

\* The state after CG::CG (lines 66-72), for a solver built on params of P.
InitInstance(P, nCalls, stag, built) ==
  /\ pc = "idle"
  /\ calls = 0
  /\ callsMax = nCalls
  /\ entry = "none"
  /\ ret = "none"
  /\ exitReason = "none"
  /\ param \in P
  /\ xPrec = 8
  /\ isStaggered \in stag
  /\ blockBuilt \in built
  /\ xin = Zero
  /\ H = << >> /\ allconverged = FALSE /\ just_reliable_updated = FALSE
  /\ aux_worker = "NULL"
  /\ x_sloppy_saved = Zero
  /\ buf = [p |-> D("none", 0), q |-> D("none", 0), tmp |-> D("none", 0)]
  /\ alphaIt = -1
  /\ x = Zero /\ b = Zero /\ b2 = << >> /\ stop = << >>
  /\ init = FALSE
  /\ alloc = {}
  /\ temps = {}
  /\ y = Zero /\ xSloppy = Zero /\ xsIsX = TRUE
  /\ k = 0 /\ r2 = 0 /\ rNorm = 0 /\ r0Norm = 0 /\ maxrx = 0 /\ maxrr = 0
  /\ delta = Rat(0, 1) /\ rUpdate = 0 /\ steps_since_reliable = 1
  /\ converged = FALSE
  /\ heavy_quark_res = 0 /\ heavy_quark_res_old = 0
  /\ heavy_quark_restart = FALSE
  /\ resIncrease = 0 /\ resIncreaseTotal = 0 /\ hqresIncrease = 0
  /\ L2breakdown = FALSE
  /\ updateX = FALSE /\ updateR = FALSE
  /\ matCalls = NoMat /\ matSloppyCalls = 0 /\ iter0 = 0
  /\ grew = 0 /\ grewTotal = 0
  /\ freed = EmptyBag

\* Between the operator applications the worker has made all its n_update
\* calls: its cursor is 0 and it is not looked at separately.
NoWorker == [n_rhs |-> 0, n_update |-> 0, count |-> 0, calls |-> 0, applied |-> << >>]

\* No side-by-side run of the reliable-update tests.
NoProbe == [policy |-> "max", delta |-> Rat(0, 1), n |-> 0, cols |-> << >>,
            r0Norm |-> 0, maxrx |-> 0, maxrr |-> 0, bmaxrx |-> 0, bmaxrr |-> 0,
            maxrrAtTest |-> 0, updateX |-> FALSE, updateR |-> FALSE,
            block |-> FALSE]

\* The structure of the small matrices is not followed.
NoTri == [n |-> 0, k |-> 0, rel |-> FALSE, C |-> {}, C_old |-> {}, S |-> {},
          Linv |-> {}, Sdagger |-> {}]

\* No single-RHS iteration under observation.
\* steps_seen is the steps_since_reliable that line 297 read.
NoBeta == [on |-> FALSE, pipeline |-> FALSE, k |-> 0, steps_since_reliable |-> 1,
           steps_seen |-> 1, pAp |-> "pos", sigma |-> "pos", alt |-> FALSE,
           breakdown |-> FALSE]

InitWith(P, nCalls, stag, built) ==
  /\ InitInstance(P, nCalls, stag, built)
  /\ blockcg_update = NoWorker /\ probe = NoProbe /\ tri = NoTri
  /\ cgbeta = NoBeta

InitCG ==
  InitWith(ParamSpace(TolValues, DeltaValues, 0..MaxIter, {0, 1}, {1},
                      ResidualTypes, {"NO", "YES"}, Precisions, {1}),
           1, {FALSE}, {TRUE})

NextCG == CGCall \/ CGIterate \/ CGReturn

InitBlock ==
  InitWith(ParamSpace(TolValues, DeltaValues, {0, MaxIter}, {0}, {0},
                      {{"L2"}}, {"NO"}, Precisions, {1, 2}),
           MaxCalls, {FALSE}, {TRUE})

NextBlock == SolveCall \/ BlockIterate \/ BlockReturn

SpecBlock == InitBlock /\ [][NextBlock]_vars

\* One instance on which the caller makes both kinds of call.
Init ==
  InitWith(ParamSpace({Rat(1, 2)}, DeltaValues, {0, MaxIter}, {0}, {0},
                      {{"L2"}}, {"NO"}, Precisions, {1, 2}),
           MaxCalls, {FALSE}, {TRUE})

Next == CGCall \/ CGIterate \/ CGReturn \/ SolveCall \/ BlockIterate \/ BlockReturn

Spec == Init /\ [][Next]_vars

\* One call of either kind on a fresh instance.  A call that has started
\* runs on: the loop body and the epilogue are straight-line code between
\* kernel calls that return.
InitOne ==
  InitWith(ParamSpace(TolValues, DeltaValues, 0..MaxIter, {0}, {0},
                      {{"L2"}}, {"NO"}, Precisions, {1, 2}),
           1, {FALSE}, {TRUE})

SpecFair ==
  /\ InitOne /\ [][Next]_vars
  /\ WF_vars(CGIterate) /\ WF_vars(CGReturn)
  /\ WF_vars(BlockIterate) /\ WF_vars(BlockReturn)

SpecCG == InitCG /\ [][NextCG]_vars

\* operator() on staggered and on Wilson-like operators, with and without
\* the sloppy partial accumulator, at both sloppy precisions.
InitAlias ==
  /\ \E q \in ParamSpace({Rat(1, 2)}, DeltaValues, 0..MaxIter, {0}, {1},
                         {{"L2"}}, {"NO"}, Precisions, {1}), u \in BOOLEAN :
       InitWith({[q EXCEPT !.use_sloppy_partial_accumulator = u]},
                MaxCalls, BOOLEAN, {TRUE})

SpecAlias == InitAlias /\ [][NextCG]_vars

\* ------------------------------------------------------------ the worker
\* BlockCGUpdate, lines 606-667.  apply() adds a slice of the components of
\* *pp, times the matching rows of alpha, to x_sloppy.  A slice is recorded
\* as the sequence of <<component of P, row of alpha>> pairs it applies.

\* Line 611: n_update is 4 for Nspin = 4 and 2 otherwise.
WorkerNUpdate == {2, 4}

\* Line 630.
update_per_apply(n, nu) == n \div nu

\* Line 633.
update_per_apply_on_last(n, nu) == n - nu * update_per_apply(n, nu)

\* Components begin() + from up to begin() + to, with alpha read from
\* &alpha[from * n]: row from + i goes with the i-th component of the slice.
Slice(n, from, to) ==
  [i \in 1..(to - from) |-> <<from + (i - 1), ((from * n) \div n) + (i - 1)>>]

\* The leftover branch taking update_per_apply_on_last components only.
ApplySliceShortLast(n, nu, c) ==
  LET upa == update_per_apply(n, nu)
      last == update_per_apply_on_last(n, nu)
  IN IF (c # nu - 1 /\ upa # 0) \/ last = 0
     THEN Slice(n, c * upa, (c + 1) * upa)
     ELSE IF c = nu - 1
     THEN Slice(n, c * upa, c * upa + last)
     ELSE << >>

\* Lines 638-663 (the BLOCKSOLVER_MULTIREDUCE branches).
ApplySlice(n, nu, c) ==
  LET upa == update_per_apply(n, nu)
      last == update_per_apply_on_last(n, nu)
  IN IF (c # nu - 1 /\ upa # 0) \/ last = 0
     THEN Slice(n, c * upa, (c + 1) * upa)
     ELSE IF c = nu - 1
     THEN Slice(n, c * upa, n)
     ELSE << >>

\* BlockCGUpdate::apply, lines 626-667: one of the n_update calls the
\* operator makes.
WorkerApply ==
  /\ blockcg_update.calls < blockcg_update.n_update
  /\ LET w == blockcg_update
     IN blockcg_update' = [w EXCEPT
          !.applied = @ \o ApplySlice(w.n_rhs, w.n_update, w.count),
          \* line 665
          !.count = IF w.count + 1 = w.n_update THEN 0 ELSE w.count + 1,
          !.calls = @ + 1]
  /\ UNCHANGED <<pc, param, callVars, xPrec, isStaggered, blockBuilt, freed,
                 probe, tri, cgbeta, fieldVars, bufVars, loopVars, hqVars, incVars, obsVars,
                 blockVars>>

\* The worker of a block solve with n_rhs columns, its cursor at 0.
InitWorker ==
  /\ InitInstance(ParamSpace({Rat(1, 2)}, {Rat(0, 1)}, {0}, {0}, {0},
                              {{"L2"}}, {"NO"}, {8}, {1}),
                  1, {FALSE}, {TRUE})
  /\ probe = NoProbe /\ tri = NoTri /\ cgbeta = NoBeta
  /\ \E n \in {m \in 1..QUDA_MAX_BLOCK_SRC : SolveSupported(m)}, nu \in WorkerNUpdate :
       blockcg_update = [n_rhs |-> n, n_update |-> nu, count |-> 0, calls |-> 0,
                         applied |-> << >>]

SpecWorker == InitWorker /\ [][WorkerApply]_vars

\* ------------------------------------------- the reliable-update tests
\* The classical test of operator() (lines 338-342, 403-406) and
\* block_reliable (lines 679-691, 1324-1325) fed the same residual norms:
\* the column norms of an iteration, aggregated by the policy, and the true
\* norm that a reliable update recomputes.
ProbeStep ==
  /\ probe.n < MaxIter
  /\ \E cn \in ColVecs(MaxCols, Norms) :
       LET rr2 == ReliableAggregate(probe.policy, Squares(cn))
           rn == Sqrt(rr2)
           updX == CGUpdateXTest(rn, probe.delta, probe.r0Norm, probe.maxrx)
           updR == CGUpdateRTest(rn, probe.delta, probe.r0Norm, probe.maxrx,
                                 probe.maxrr)
           rel == block_reliable(rr2, probe.bmaxrr, probe.delta)
       IN
       \* the true residual norm is recomputed only by a reliable update
       \E tn \in IF updR \/ updX \/ rel THEN Norms ELSE {0} :
       probe' = [probe EXCEPT
            !.n = @ + 1,
            !.cols = cn,
            !.updateX = updX,
            !.updateR = updR,
            !.block = rel,
            !.maxrrAtTest = Max(probe.bmaxrr, rn),
            \* lines 339-340 and 403-406
            !.r0Norm = IF updR \/ updX THEN tn ELSE @,
            !.maxrx = IF updR \/ updX THEN tn ELSE Max(@, rn),
            !.maxrr = IF updR \/ updX THEN tn ELSE Max(@, rn),
            \* lines 682-683 and 1324-1325
            !.bmaxrx = IF rel THEN tn ELSE Max(@, rn),
            !.bmaxrr = IF rel THEN tn ELSE Max(@, rn)]
  /\ UNCHANGED <<pc, param, callVars, xPrec, isStaggered, blockBuilt, freed,
                 blockcg_update, tri, cgbeta, fieldVars, bufVars, loopVars, hqVars, incVars,
                 obsVars, blockVars>>

\* Both tests start from the norm of the initial residual (lines 237-240,
\* 938-956), under either aggregation policy.
InitProbe ==
  /\ InitInstance(ParamSpace({Rat(1, 2)}, {Rat(0, 1)}, {0}, {0}, {0},
                              {{"L2"}}, {"NO"}, {8}, {1}),
                  1, {FALSE}, {TRUE})
  /\ blockcg_update = NoWorker /\ tri = NoTri /\ cgbeta = NoBeta
  /\ \E pol \in {"min", "max"}, dl \in DeltaValues \cup {Rat(2, 1)}, r0 \in Norms :
       probe = [NoProbe EXCEPT !.policy = pol, !.delta = dl, !.r0Norm = r0,
                               !.maxrx = r0, !.maxrr = r0, !.bmaxrx = r0,
                               !.bmaxrr = r0]

SpecProbe == InitProbe /\ [][ProbeStep]_vars

\* ------------------------------------------- the small matrices
\* The nsrc x nsrc matrices of solve_n (lines 808-822), each kept as the set
\* of positions <<row, column>> at which it may hold a non-zero entry.
Upper(n) == {p \in (1..n) \X (1..n) : p[1] <= p[2]}
Lower(n) == {p \in (1..n) \X (1..n) : p[1] >= p[2]}
Identity(n) == {<<i, i>> : i \in 1..n}

\* A.adjoint()
Adjoint(A) == {<<p[2], p[1]>> : p \in A}

\* A * B
MatMul(A, B, n) ==
  UNION {{<<a[1], c[2]>> : c \in {d \in B : d[1] = a[2]}} : a \in A}

\* Chains of up to four entries of R (enough for up to five columns).
Closure(R, n) ==
  LET R2 == R \cup MatMul(R, R, n)
      R4 == R2 \cup MatMul(R2, R2, n)
  IN R4

\* A.inverse(): entry (i, j) of the inverse can be non-zero only if A links
\* i to j through a chain of non-zero entries.
MatInverse(A, n) == Closure(A \cup Identity(n), n)

\* H.llt().matrixL(): lower triangular with a non-zero diagonal; below the
\* diagonal nothing, one entry, or every entry.
CholeskyFactors(n) ==
  LET below == {p \in (1..n) \X (1..n) : p[1] > p[2]}
  IN {Identity(n) \cup T : T \in {{}, below} \cup {{p} : p \in below}}

\* Line 1136 without the adjoint.
StepSNoAdjoint(L) == L

\* Line 1136: S = L.adjoint().
StepS(L) == Adjoint(L)

\* One pass of the loop as far as the matrices go: the step (lines
\* 1133-1169), the reliable update that may follow (lines 1275-1277, 1305)
\* and Sdagger for caxpyz_L (line 1355).  Linv is kept as the union of what
\* the caxpy_U calls of the pass were given (lines 1148 and 1290).
TriIterate ==
  /\ tri.n > 0
  /\ tri.k < MaxIter
  /\ \E Ls \in CholeskyFactors(tri.n), rel \in BOOLEAN :
       \E Lr \in IF rel THEN CholeskyFactors(tri.n) ELSE {Ls} :
         LET n == tri.n
             S1 == StepS(Ls)
             Linv1 == MatInverse(S1, n)
             Cold == tri.C
             C1 == MatMul(S1, tri.C, n)
             C2 == Adjoint(Lr)
             Linv2 == MatInverse(C2, n)
             S2 == MatMul(C2, MatInverse(Cold, n), n)
             Sf == IF rel THEN S2 ELSE S1
         IN tri' = [tri EXCEPT
              !.k = @ + 1,
              !.rel = rel,
              !.C_old = Cold,
              !.C = IF rel THEN C2 ELSE C1,
              !.S = Sf,
              !.Linv = IF rel THEN Linv1 \cup Linv2 ELSE Linv1,
              !.Sdagger = Adjoint(Sf)]
  /\ UNCHANGED <<pc, param, callVars, xPrec, isStaggered, blockBuilt, freed,
                 blockcg_update, probe, cgbeta, fieldVars, bufVars, loopVars, hqVars,
                 incVars, obsVars, blockVars>>

\* The matrices after the initialization of solve_n (lines 819-822 and
\* 974-976) for 1 .. MaxCols + 1 columns.
InitTri ==
  /\ InitInstance(ParamSpace({Rat(1, 2)}, {Rat(0, 1)}, {0}, {0}, {0},
                              {{"L2"}}, {"NO"}, {8}, {1}),
                  1, {FALSE}, {TRUE})
  /\ blockcg_update = NoWorker /\ probe = NoProbe /\ cgbeta = NoBeta
  /\ \E n \in 1..(MaxCols + 1) :
       \E L0 \in CholeskyFactors(n) :
         tri = [n |-> n, k |-> 0, rel |-> FALSE, C |-> Adjoint(L0), C_old |-> {},
                S |-> Identity(n), Linv |-> MatInverse(Adjoint(L0), n),
                Sdagger |-> {}]

SpecTri == InitTri /\ [][TriIterate]_vars

\* ------------------------------------------- the sigma of one CG iteration
\* Lines 280-323 choose the sigma that beta = sigma / r2_old (line 354) is
\* made of.  The reductions are kernel outputs; what the choice depends on
\* is the sign of the computed sigma, so a double is kept as one of
\* "neg", "zero", "pos" and "nan".
Signs == {"neg", "zero", "pos"}
Doubles == Signs \cup {"nan"}
\* v < 0.0 and v >= 0.0 on a double: both are false on a NaN.
Lt0(v) == v = "neg"
Ge0(v) == v \in {"zero", "pos"}

\* Line 297 without the steps_since_reliable == 0 disjunct.
PipelineBreakdownSigmaOnly(sigma, steps) == Lt0(sigma)
\* Line 297: sigma < 0.0 || steps_since_reliable == 0.
PipelineBreakdown(sigma, steps) == Lt0(sigma) \/ steps = 0
\* Line 322: imag(cg_norm) >= 0.0 ? imag(cg_norm) : r2; TRUE when r2 is used.
UnfusedUsesR2(sigma) == ~Ge0(sigma)

\* One iteration of the loop of CG::operator() as far as sigma is concerned:
\* pAp and the computed sigma come out of the reductions (lines 291-296 and
\* 316-321), the fallback is chosen (297-301 or 322), and the iteration ends
\* with steps_since_reliable++ (378) or, on a reliable update, = 0 (461).
BetaIterate ==
  /\ cgbeta.on
  /\ cgbeta.k < MaxIter + 1
  /\ \E pAp \in Signs, sigma \in Doubles, rel \in BOOLEAN :
       LET bd == cgbeta.pipeline
                 /\ PipelineBreakdown(sigma, cgbeta.steps_since_reliable)
           alt == IF cgbeta.pipeline THEN bd ELSE UnfusedUsesR2(sigma)
       IN cgbeta' = [cgbeta EXCEPT
            !.k = @ + 1,
            !.pAp = pAp,
            !.sigma = sigma,
            !.alt = alt,
            !.breakdown = bd,
            !.steps_seen = cgbeta.steps_since_reliable,
            !.steps_since_reliable = IF rel THEN 0 ELSE @ + 1]
  /\ UNCHANGED <<pc, param, callVars, xPrec, isStaggered, blockBuilt, freed,
                 blockcg_update, probe, tri, fieldVars, bufVars, loopVars, hqVars,
                 incVars, obsVars, blockVars>>

\* Line 269: steps_since_reliable = 1 at loop entry, with or without
\* param.pipeline.
InitBeta ==
  /\ InitInstance(ParamSpace({Rat(1, 2)}, {Rat(0, 1)}, {0}, {0}, {0},
                              {{"L2"}}, {"NO"}, {8}, {1}),
                  1, {FALSE}, {TRUE})
  /\ blockcg_update = NoWorker /\ probe = NoProbe /\ tri = NoTri
  /\ \E pl \in BOOLEAN : cgbeta = [NoBeta EXCEPT !.on = TRUE, !.pipeline = pl]

SpecBeta == InitBeta /\ [][BetaIterate]_vars

\* The life of one instance: calls of both kinds, then the destructor.
NextLife == Next \/ Destroy

SpecLife == Init /\ [][NextLife]_vars

\* Instances of either build, configured with block sizes inside and outside
\* the switch of CG::solve.
SolveSizes == {-1, 0, 1, 2, 17, 24, 65}

InitSolve ==
  InitWith(ParamSpace({Rat(1, 2)}, {Rat(0, 1), Rat(1, 2)}, {0, MaxIter}, {0}, {0},
                      {{"L2"}}, {"NO"}, {8}, SolveSizes),
           1, {FALSE}, BOOLEAN)

SpecSolve == InitSolve /\ [][Next]_vars

\* -------------------------------------------------------------- properties
\* A step that is a call of operator() / of solve().
IsCGCall == pc = "idle" /\ calls' = calls + 1 /\ entry' = "operator()"
IsSolveCall == pc = "idle" /\ calls' = calls + 1 /\ entry' = "solve"

\* C1: a call of operator() that passes the location check with a zero
\* right-hand side and compute_null_vector = NO returns at once: x is b,
\* true_res and true_res_hq are 0 and nothing else of param (so not iter)
\* changes, no iteration runs, neither operator is applied and no buffer is
\* allocated.
C1_ZeroSourceReturn ==
  [][(IsCGCall /\ ret' # "not_supported" /\ b' = Zero
        /\ param.compute_null_vector = "NO")
     => /\ pc' = "idle"
        /\ ret' = "zero_source"
        /\ x' = b'
        /\ param' = [param EXCEPT !.true_res = "zero", !.true_res_hq = "zero"]
        /\ param'.iter = param.iter
        /\ k' = 0
        /\ matCalls' = NoMat /\ matSloppyCalls' = 0
        /\ init' = init /\ alloc' = alloc /\ temps' = temps]_vars

C1_Witness ==
  /\ pc = "idle" /\ entry = "operator()" /\ ret = "zero_source"
  /\ b = Zero /\ x = Zero /\ xin # Zero
  /\ param.true_res = "zero" /\ alloc = {}

\* The updates of iterations 0..n-1, each with its own coefficient.
Updates(n) == SetToBag({<<"upd", i, i>> : i \in 0..(n - 1)})
\* The update of the last block iteration that the epilogue still has to add.
Deferred == IF just_reliable_updated THEN Zero ELSE BlockUpdate(buf.tmp, alphaIt)

\* C2: in both loops k never exceeds param.maxiter, every pass of a loop
\* body raises k by one or leaves the loop, and a started loop is always
\* left and the call returns.  When the loop is left because k reached
\* maxiter the call returns normally: x is y plus the accumulated sloppy
\* updates (the supplied x plus one update per iteration) and param.iter
\* has grown by k.
C2_MaxiterIsNormalReturn ==
  /\ [](pc \in {"cg_loop", "cg_exit", "blk_loop", "blk_exit"}
          => k <= param.maxiter)
  /\ [][(pc \in {"cg_loop", "blk_loop"})
          => (k' = k + 1 \/ pc' \in {"cg_exit", "blk_exit"})]_vars
  /\ [][(pc \in {"cg_exit", "blk_exit"} /\ exitReason = "maxiter")
        => /\ k = param.maxiter
           /\ pc' = "idle"
           /\ ret' = "normal"
           /\ param'.iter = param.iter + k
           /\ pc = "cg_exit" => x' = y (+) XS
           /\ pc = "blk_exit" => x' = y (+) BXS (+) Deferred
           /\ x' = xin (+) Updates(k)]_vars
  /\ (pc \in {"cg_loop", "blk_loop"}) ~> (pc = "idle" /\ ret = "normal")

C2_Witness ==
  /\ pc = "idle" /\ ret = "normal" /\ exitReason = "maxiter"
  /\ entry = "solve"
  /\ param.maxiter = MaxIter /\ param.iter = iter0 + MaxIter
  /\ matCalls.reliable > 0
  /\ x = xin (+) Updates(MaxIter)

\* Column j of the block solve meets its threshold: H(j,j) <= stop_j.
ColumnConverged(j) == H[j] * stop[j].den <= stop[j].num

\* C3: wherever the block loop stands (after initialization, after a step,
\* after a reliable update) allconverged is the conjunction of the
\* per-column test over all columns; the loop is left before k reaches
\* maxiter only when every column passes the test, and one column that
\* fails it keeps the loop running while k < maxiter.
C3_AllColumnsConverge ==
  pc \in {"blk_loop", "blk_exit"} =>
    /\ DOMAIN H = DOMAIN stop /\ DOMAIN H = DOMAIN b2
    /\ allconverged = (\A j \in DOMAIN H : ColumnConverged(j))
    /\ (pc = "blk_exit" /\ k < param.maxiter)
         => \A j \in DOMAIN H : ColumnConverged(j)
    /\ (k < param.maxiter /\ \E j \in DOMAIN H : ~ColumnConverged(j))
         => pc = "blk_loop"

C3_Witness ==
  /\ pc = "blk_loop" /\ k > 0 /\ just_reliable_updated
  /\ DOMAIN H = {1, 2}
  /\ ColumnConverged(1) /\ ~ColumnConverged(2)

\* C4: a call whose initial residual already meets the convergence test
\* leaves the loop with k = 0 and no reliable update, and returns the x it
\* was given, with param.iter as it was.
C4_IdempotentOnConvergedStart ==
  /\ [](pc \in {"cg_loop", "blk_loop"} /\ k = 0
          => ~(IF pc = "cg_loop" THEN converged ELSE allconverged))
  /\ [][(pc \in {"cg_exit", "blk_exit"} /\ k = 0 /\ exitReason = "converged")
        => /\ matCalls.reliable = 0
           /\ ret' = "normal"
           /\ param'.iter = param.iter
           /\ x' = xin]_vars

\* C5: with param.delta = 0 (tol is positive) no iteration of either loop
\* performs a reliable update: rUpdate stays 0 up to the return, and the
\* reference operator is applied once for the initial residual and, in the
\* epilogue, once for the true residual, never in between.
C5_DeltaZeroNoReliableUpdate ==
  (param.delta.num = 0 /\ param.tol.num > 0) =>
    /\ rUpdate = 0
    /\ ~updateX /\ ~updateR /\ ~just_reliable_updated
    /\ matCalls.reliable = 0
    /\ matCalls.init <= 1 /\ matCalls.final <= 1
    /\ pc \in {"cg_loop", "cg_exit", "blk_loop", "blk_exit"}
         => (matCalls.init = 1 /\ matCalls.final = 0)
    /\ pc \in {"cg_loop", "cg_exit"} => steps_since_reliable = k + 1

C5_Witness ==
  /\ param.delta.num = 0
  /\ pc = "idle" /\ ret = "normal" /\ entry = "solve"
  /\ calls = MaxCalls
  /\ param.iter > iter0
  /\ matSloppyCalls = MaxIter
  /\ matCalls = [init |-> 1, reliable |-> 0, final |-> 1, hooked |-> 0]

\* C6: in operator() with delta >= tol, an iteration whose r2 already
\* meets the convergence test performs a reliable update: an iteration
\* that performs none has updateX = 0 and leaves an r2 that fails the test
\* (against the heavy-quark residual the test saw), and updateX = 1 always
\* comes with a reliable update.  So without the heavy-quark residual every
\* exit by convergence after at least one iteration has
\* steps_since_reliable = 0 and an r2 recomputed from y.
C6_ForcedReliableUpdate ==
  /\ [][(pc = "cg_loop" /\ RatGe(param.delta, param.tol))
        => /\ matCalls'.reliable = matCalls.reliable
                => /\ ~updateX'
                   /\ ~convergence(r2', heavy_quark_res, stop[1], param.tol_hq)
           /\ updateX' => matCalls'.reliable = matCalls.reliable + 1]_vars
  /\ []((~use_heavy_quark_res /\ RatGe(param.delta, param.tol)
          /\ pc = "cg_exit" /\ exitReason = "converged" /\ k > 0)
        => /\ steps_since_reliable = 0
           /\ updateX \/ updateR
           /\ r2 = rNorm * rNorm /\ rNorm = r0Norm
           /\ matCalls.reliable = rUpdate /\ rUpdate > 0)

\* The forced update alone fired: the classical test for r did not.
C6_Witness ==
  /\ ~use_heavy_quark_res /\ RatGe(param.delta, param.tol)
  /\ pc = "cg_exit" /\ exitReason = "converged" /\ k > 0
  /\ steps_since_reliable = 0
  /\ updateX /\ ~updateR

\* C7: in operator(), a reliable update on which the true residual norm
\* has grown on more than max_res_increase consecutive reliable updates, or
\* on more than max_res_increase_total in all, ends the loop by a break
\* when the heavy-quark residual is not used, and the call then returns
\* normally with x = x_sloppy + y; when it is used the update sets
\* L2breakdown.
C7_DriftBudgetAbort ==
  /\ [][(pc = "cg_loop" /\ grewTotal' > grewTotal
         /\ (grew' > maxResIncrease \/ grewTotal' > maxResIncreaseTotal))
        => IF use_heavy_quark_res
           THEN L2breakdown'
           ELSE pc' = "cg_exit" /\ exitReason' = "break"]_vars
  /\ [][(pc = "cg_exit" /\ exitReason = "break")
        => (pc' = "idle" /\ ret' = "normal" /\ x' = XS (+) y)]_vars

\* The fatal errors of CG::solve itself.
DispatchErrors == {"not_built", "exceeds_max", "dimension"}

\* C8: solve() on a build with the block solver and num_src in
\* {1..16, 24, 32, 48, 64} enters solve_n with num_src columns; with any
\* other num_src, or on a build without the block solver, the call is a
\* fatal error and nothing has been done: x and param are as supplied, no
\* operator has been applied, no buffer allocated or written.  The switch
\* accepts exactly that set among all sizes up to beyond the cap.
C8_SolveDispatch ==
  [][IsSolveCall =>
       /\ \A n \in (-2)..(QUDA_MAX_BLOCK_SRC + 2) :
            /\ (SolveError(n, TRUE) = "none") <=> (n \in (1..16) \cup {24, 32, 48, 64})
            /\ SolveError(n, FALSE) # "none"
       /\ IF blockBuilt /\ param.num_src \in (1..16) \cup {24, 32, 48, 64}
          THEN /\ ret' \notin DispatchErrors
               /\ pc' \in {"blk_loop", "blk_exit"}
                    => (DOMAIN H' = 1..param.num_src /\ DOMAIN b2' = DOMAIN H')
          ELSE /\ pc' = "fatal" /\ ret' \in DispatchErrors
               /\ x' = xin' /\ param' = param
               /\ matCalls' = NoMat /\ matSloppyCalls' = 0
               /\ UNCHANGED <<init, alloc, temps, y, x_sloppy_saved, buf>>]_vars

C8_Witness ==
  /\ pc = "fatal" /\ entry = "solve" /\ ret = "dimension"
  /\ blockBuilt /\ param.num_src = 17
  /\ x = xin /\ alloc = {} /\ matCalls = NoMat

\* C9 as stated: a solve with num_src = 1 runs the single-RHS loop and the
\* block loop runs only with num_src > 1.
C9_PathByNumSrc ==
  /\ pc \in {"blk_loop", "blk_exit"} => param.num_src > 1
  /\ pc \in {"cg_loop", "cg_exit"} => param.num_src = 1

\* C9 amended: the path is selected by the member function the caller
\* invokes, not by num_src.  solve() never runs the single-RHS loop: for
\* num_src = 1 it enters the block core solve_n<1> like for every other
\* supported size; operator() never runs the block loop and runs the
\* single-RHS loop whatever num_src is.
C9_PathByEntryPoint ==
  /\ [](entry = "solve" => pc \in {"idle", "blk_loop", "blk_exit", "fatal", "ub"})
  /\ [](entry = "operator()" => pc \in {"idle", "cg_loop", "cg_exit", "fatal"})
  /\ [][(IsSolveCall /\ blockBuilt /\ param.num_src = 1)
        => (ret' \notin DispatchErrors /\ pc' \notin {"cg_loop", "cg_exit"})]_vars
  /\ [][(IsCGCall /\ pc' \notin {"idle", "fatal"})
        => pc' \in {"cg_loop", "cg_exit"}]_vars

C9_Witness ==
  /\ entry = "solve" /\ param.num_src = 1
  /\ pc = "blk_loop" /\ k > 0 /\ DOMAIN H = {1}

\* C10: a solve() that reaches the norms of b and finds a column of zero
\* norm ends in a fatal error, not in a return with x = b: x and param are
\* as supplied, no operator has been applied and no buffer has been
\* allocated or written.
C10_BlockZeroSourceFatal ==
  [][(IsSolveCall /\ \E j \in DOMAIN b2' : b2'[j] = 0)
     => /\ pc' = "fatal" /\ ret' = "zero_source_block"
        /\ x' = xin' /\ x' # b'
        /\ param' = param
        /\ matCalls' = NoMat /\ matSloppyCalls' = 0
        /\ UNCHANGED <<init, alloc, temps, y, x_sloppy_saved, buf>>]_vars

C10_Witness ==
  /\ pc = "fatal" /\ entry = "solve" /\ ret = "zero_source_block"
  /\ DOMAIN b2 = {1, 2} /\ b2[1] # 0 /\ b2[2] = 0
  /\ x = xin /\ alloc = {} /\ matCalls = NoMat
  /\ param.true_res = "unset"

\* The persistent buffers of the two paths.
CGBuffers == {"r", "y", "Ap", "tmp"}
BlockBuffers == CGBuffers \cup {"x_sloppy_saved", "p", "q", "tmp_matsloppy"}

\* C11: over any sequence of operator() and solve() calls on one instance a
\* path never dereferences a persistent buffer that is not allocated, a
\* buffer is allocated only by the first call (init clear, nothing
\* allocated yet) and kept afterwards, and the destructor deletes every
\* allocated buffer exactly once.
C11_BufferLifecycle ==
  /\ [](pc # "ub")
  /\ [](pc \in {"cg_loop", "cg_exit"} => CGBuffers \subseteq alloc)
  /\ [](pc \in {"blk_loop", "blk_exit"} => BlockBuffers \subseteq alloc)
  /\ [][(alloc' # alloc /\ pc' # "destroyed")
        => (~init /\ init' /\ alloc = {} /\ alloc \subseteq alloc')]_vars
  /\ [][(pc' = "destroyed")
        => (freed' = SetToBag(alloc) /\ alloc' = {})]_vars

\* C12: when the block iteration loop is entered (its first test, k = 0)
\* the sloppy accumulator x_sloppy holds zero, on every call on the
\* instance, whether it aliases x or is the saved sloppy buffer.
C12_AccumulatorZeroAtLoopEntry ==
  (pc \in {"blk_loop", "blk_exit"} /\ k = 0) => BXS = Zero

\* C13: on a reliable update of the single-RHS path whose recomputed true
\* residual norm exceeds r0Norm as it stood before the update (the norm of
\* the previous reliable update, or of the start), resIncrease and
\* resIncreaseTotal both grow by one; on any other reliable update
\* resIncrease becomes 0 and resIncreaseTotal stays.
C13_ResIncreaseBookkeeping ==
  [][(pc = "cg_loop" /\ matCalls'.reliable # matCalls.reliable)
     => IF rNorm' > r0Norm
        THEN /\ resIncrease' = resIncrease + 1
             /\ resIncreaseTotal' = resIncreaseTotal + 1
        ELSE /\ resIncrease' = 0
             /\ resIncreaseTotal' = resIncreaseTotal]_vars

\* The update term of block iteration i as the model records it: P_i alpha_i
\* when the search directions are what the algorithm prescribes.
BlockTerm(i) == IF buf.p.tag = "P" THEN One("upd", i, i) ELSE Junk

\* C14: in block iteration k the worker is installed for the sloppy operator
\* exactly when k > 0 and iteration k-1 made no reliable update; what the
\* iteration then adds to the solution (y + x_sloppy) through the worker is
\* P_{k-1} alpha_{k-1}, the previous P and alpha as they were before
\* iteration k overwrites them (a reliable update of iteration k adds its
\* own P_k alpha_k besides).
C14_WorkerOrdering ==
  [][(pc = "blk_loop")
     => LET installed == k > 0 /\ ~updateR
            gain == (y' (+) BXS') (-) (y (+) BXS)
        IN
        /\ gain = (IF installed THEN BlockTerm(k - 1) ELSE Zero)
                  (+) (IF updateR' THEN BlockTerm(k) ELSE Zero)
        /\ (y (+) BXS) \sqsubseteq (y' (+) BXS')
        /\ ~updateR' => (aux_worker' = "blockcg_update" <=> installed)]_vars

\* A second iteration has run with the worker installed.
C14_Witness ==
  /\ pc \in {"blk_loop", "blk_exit"} /\ k = 2
  /\ aux_worker = "blockcg_update" /\ ~updateR /\ buf.p.tag = "P"

\* C17: n_update consecutive apply() calls from count = 0 apply every
\* component of P exactly once, in increasing order and each with its own
\* row of alpha, whatever n_rhs; the cursor is then 0 again, and it is not 0
\* after fewer calls.
C17_SliceCoverage ==
  LET w == blockcg_update
  IN /\ \A i \in 1..Len(w.applied) : w.applied[i] = <<i - 1, i - 1>>
     /\ Len(w.applied) <= w.n_rhs
     /\ (w.n_update > 0 /\ w.calls = w.n_update)
          => (Len(w.applied) = w.n_rhs /\ w.count = 0)
     /\ (0 < w.calls /\ w.calls < w.n_update) => w.count # 0

\* All four calls made with six columns: slices of 1, 1, 1 and 3.
C17_Witness ==
  /\ blockcg_update.n_rhs = 6 /\ blockcg_update.n_update = 4
  /\ blockcg_update.calls = 4 /\ Len(blockcg_update.applied) = 6

\* The X-update terms in a field, without the start vector and the leftovers.
UpdPart(f) == [t \in {u \in BagToSet(f) : u[1] = "upd"} |-> f[t]]

\* C15: the x a block solve returns holds the update P_i alpha_i of every
\* executed iteration i exactly once and no other update: none when no
\* iteration ran.  (With search directions that are not what the algorithm
\* prescribes the updates are not told apart; their number is still k, on
\* top of at most one leftover of the supplied accumulator.)
C15_ExactlyOnceUpdates ==
  [][(pc = "blk_exit")
     => /\ pc' = "idle"
        /\ IF buf.p.tag = "P"
           THEN UpdPart(x') = Updates(k) /\ CopiesIn(<<"junk", 0, 0>>, x') = 0
           ELSE /\ UpdPart(x') = Zero
                /\ CopiesIn(<<"junk", 0, 0>>, x') \in {k, k + 1}]_vars

\* A solve returned after two iterations with both updates in x.
C15_Witness ==
  /\ pc = "idle" /\ entry = "solve" /\ ret = "normal"
  /\ UpdPart(x) = Updates(2)

\* How often the update of block iteration i is in the solution so far.
AppliedCount(i, yy, xs) == CopiesIn(<<"upd", i, i>>, yy (+) xs)

\* C16 as stated: the iteration that follows a reliable update applies its
\* own X-update P_k alpha_k within that iteration.
C16_EagerAfterReliable ==
  [][(pc = "blk_loop" /\ k > 0 /\ updateR /\ buf.p.tag = "P")
     => AppliedCount(k, y', BXS') = 1]_vars

\* C16, amended: the X-update of an iteration is applied within the
\* iteration exactly when that iteration makes a reliable update; the
\* iteration after a reliable update runs without the worker, adds nothing
\* for the previous iteration, and defers its own update like any other.
C16_EagerOnReliableIteration ==
  [][(pc = "blk_loop" /\ buf.p.tag = "P")
     => /\ AppliedCount(k, y', BXS') = (IF updateR' THEN 1 ELSE 0)
        /\ (k > 0 /\ updateR)
             => /\ AppliedCount(k - 1, y, BXS) = 1
                /\ AppliedCount(k - 1, y', BXS') = 1
                /\ aux_worker' = "NULL"]_vars

\* Iteration 0 made a reliable update, iteration 1 none: its update is
\* still pending after it.
C16_Witness ==
  /\ pc \in {"blk_loop", "blk_exit"} /\ k = 2 /\ rUpdate = 1 /\ ~updateR
  /\ buf.p.tag = "P" /\ aux_worker = "NULL"
  /\ AppliedCount(0, y, BXS) = 1 /\ AppliedCount(1, y, BXS) = 0

\* Column j of the last tested iteration is below delta * maxrr.
ColumnBelow(j) == LtTimes(probe.cols[j], probe.delta, probe.maxrrAtTest)

\* C18 as stated: with the min policy a reliable update is triggered only
\* when every column is below delta * maxrr, with the max policy as soon as
\* any one column is.
C18_PolicyAsStated ==
  probe.n > 0 =>
    /\ (probe.policy = "min" /\ probe.block)
         => \A j \in DOMAIN probe.cols : ColumnBelow(j)
    /\ (probe.policy = "max" /\ \E j \in DOMAIN probe.cols : ColumnBelow(j))
         => probe.block

\* C18, amended: with the max policy a reliable update is triggered exactly
\* when every column is below delta * maxrr, with the min policy exactly
\* when at least one column is.
C18_PolicyAggregation ==
  probe.n > 0 =>
    /\ probe.policy = "max"
         => (probe.block <=> \A j \in DOMAIN probe.cols : ColumnBelow(j))
    /\ probe.policy = "min"
         => (probe.block <=> \E j \in DOMAIN probe.cols : ColumnBelow(j))

\* Max policy, one column below the threshold and one not: no update.
C18_Witness ==
  /\ probe.n > 0 /\ probe.policy = "max" /\ ~probe.block
  /\ \E i, j \in DOMAIN probe.cols : ColumnBelow(i) /\ ~ColumnBelow(j)

\* C19: fed the same residual norms and delta, block_reliable returns 1 in
\* exactly the iterations in which the classical single-RHS test sets
\* updateR or updateX, and both keep the same maxrr.
C19_SameReliableTest ==
  /\ probe.n > 0 => (probe.block <=> (probe.updateR \/ probe.updateX))
  /\ probe.bmaxrr = probe.maxrr /\ probe.bmaxrx = probe.maxrx

\* Two iterations tested, the second triggering in both without updateX.
C19_Witness ==
  /\ probe.n = 2 /\ probe.block /\ probe.updateR /\ ~probe.updateX

\* C20: with the heavy-quark residual selected, an iteration of the
\* single-RHS loop ends the loop as converged only if it made a reliable
\* update (steps_since_reliable = 0), param.delta > 0, the heavy-quark
\* residual is within tol_hq, and L2 is converged or L2breakdown is set;
\* so with delta = 0 a solve that entered the loop leaves it only at
\* maxiter or by a break.
C20_HQConvergedExit ==
  /\ [][(pc = "cg_loop" /\ use_heavy_quark_res
         /\ pc' = "cg_exit" /\ exitReason' = "converged")
        => /\ matCalls'.reliable = matCalls.reliable + 1
           /\ steps_since_reliable' = 0
           /\ param.delta.num > 0
           /\ heavy_quark_res' <= param.tol_hq
           /\ (L2breakdown'
               \/ convergenceL2(r2', heavy_quark_res', stop[1], param.tol_hq))]_vars
  /\ [](pc = "cg_exit" /\ use_heavy_quark_res /\ param.delta.num = 0 /\ k > 0
          => exitReason \in {"maxiter", "break"})

\* A heavy-quark solve left the loop as converged after an iteration.
C20_Witness ==
  /\ pc = "cg_exit" /\ exitReason = "converged" /\ use_heavy_quark_res
  /\ k > 0 /\ steps_since_reliable = 0 /\ param.delta.num > 0

\* C21: on every block solve, the first on an instance or a later one, the
\* initialization leaves Q = R Linv: caxpy_U accumulated into a zero field.
C21_InitialQIsRLinv ==
  (pc \in {"blk_loop", "blk_exit"} /\ k = 0) => buf.q = D("Q", 0)

\* C22: C and S are upper-triangular after the initialization, after every
\* step and after every reliable update; every matrix given to caxpy_U is
\* upper-triangular and every matrix given to caxpyz_L lower-triangular.
C22_TriangularStructure ==
  tri.n > 0 =>
    /\ tri.C \subseteq Upper(tri.n)
    /\ tri.S \subseteq Upper(tri.n)
    /\ tri.C_old \subseteq Upper(tri.n)
    /\ tri.Linv \subseteq Upper(tri.n)
    /\ tri.Sdagger \subseteq Lower(tri.n)

\* Three columns, a reliable update in the second pass, with S and its
\* adjoint filled up to the corner.
C22_Witness ==
  /\ tri.n = 3 /\ tri.k = 2 /\ tri.rel
  /\ <<1, 3>> \in tri.S /\ <<3, 1>> \in tri.Sdagger /\ <<1, 3>> \in tri.Linv

InCGSolve == pc \in {"cg_loop", "cg_exit"}

\* Lines 138-146 and 179-195 as the claim words them; temps holds the
\* buffers the call allocated for itself.
C24_AliasRules ==
  /\ ("r_sloppy" \notin temps) <=> (param.precision_sloppy = xPrec)
  /\ xsIsX <=> (param.precision_sloppy = xPrec
                \/ ~param.use_sloppy_partial_accumulator)
  /\ ("x_sloppy" \notin temps) <=> xsIsX
  /\ ("tmp2" \notin temps) <=> isStaggered
  /\ ("tmp3" \in temps) <=> (param.precision # param.precision_sloppy
                             /\ ~isStaggered)

\* C24: in the single-RHS path the aliasing is fixed before the first
\* iteration and does not change during the solve: r_sloppy is r iff
\* precision_sloppy is the precision of x, x_sloppy is x iff that or
\* use_sloppy_partial_accumulator is false, tmp2 is tmp iff the operator is
\* staggered, tmp3 is separate iff precision differs from precision_sloppy
\* on a non-staggered operator; and the epilogue frees exactly the buffers
\* the solve allocated.
C24_AliasingFixed ==
  /\ [](InCGSolve => C24_AliasRules)
  /\ []((pc = "cg_exit") => CGFrees = temps)
  /\ [][(InCGSolve /\ (pc' \in {"cg_loop", "cg_exit"}))
          => (temps' = temps /\ xsIsX' = xsIsX)]_vars
  /\ [][((pc = "cg_exit") /\ (pc' = "idle")) => (temps' = {})]_vars

\* A mixed-precision Wilson-like solve with the sloppy accumulator has
\* iterated with all five buffers of its own; a staggered one without the
\* accumulator is covered by the same runs.
C24_Witness ==
  /\ pc = "cg_exit" /\ k > 0 /\ calls = 2
  /\ ~isStaggered /\ param.precision_sloppy = 4
  /\ param.use_sloppy_partial_accumulator
  /\ temps = {"tmp2", "tmp3", "r_sloppy", "x_sloppy", "p"} /\ ~xsIsX

\* C25: dslash::aux_worker is NULL whenever the block solve applies the
\* reference-precision operator mat (initial residual, reliable update,
\* final true residual: no application is counted as hooked) and whenever
\* no call is running, so on every normal return of solve() and at the
\* entry of every later solve.
C25_HookNullAtMatAndReturn ==
  /\ matCalls.hooked = 0
  /\ (pc = "idle") => (aux_worker = "NULL")

\* The second solve of an instance made a reliable update in its second
\* iteration, for whose matSloppy the worker had been installed.
C25_Witness ==
  /\ pc = "blk_exit" /\ entry = "solve" /\ calls = 2
  /\ k = 2 /\ updateR /\ rUpdate = 1
  /\ matCalls.init = 1 /\ matCalls.reliable = 1
  /\ aux_worker = "NULL"

\* C26: in the classical policy of operator(), whenever the triggers are
\* about to be evaluated maxrx equals maxrr and r0Norm is at most maxrr (so
\* also after lines 339-340 have raised both to a larger rNorm).  Hence for
\* every residual norm the iteration may produce: updateX implies updateR,
\* updateX is rNorm < delta * r0Norm and updateR is rNorm < delta * maxrr
\* with the guards r0Norm <= maxrx and r0Norm <= maxrr making no difference;
\* and an iteration that is not forced makes a reliable update exactly when
\* rNorm < delta * maxrr.
C26_ClassicalTriggers ==
  /\ [](pc = "cg_loop" =>
          /\ maxrx = maxrr
          /\ r0Norm <= maxrr
          /\ \A rn \in Norms :
               /\ CGUpdateX(rn) => CGUpdateR(rn)
               /\ CGUpdateX(rn) <=> LtTimes(rn, delta, r0Norm)
               /\ CGUpdateR(rn) <=> LtTimes(rn, delta, Max(maxrr, rn)))
  /\ [][(pc = "cg_loop" /\ \A rn \in Norms : ~CGForced(rn))
          => /\ (matCalls'.reliable # matCalls.reliable) <=> updateR'
             /\ ~updateR' => ~LtTimes(rNorm', delta, maxrr')]_vars

\* After an iteration whose residual norm rose above r0Norm, some norm of
\* the next iteration sets updateR without updateX.
C26_Witness ==
  /\ pc = "cg_loop" /\ k > 0 /\ r0Norm < maxrr /\ maxrx = maxrr
  /\ \E rn \in Norms : CGUpdateR(rn) /\ ~CGUpdateX(rn)

=============================================================================
